---- MODULE Spec2Model ----
(***************************************************************************)
(* tornpsql.Connection (src/tornpsql/__init__.py): the connection          *)
(* lifecycle, the statement builder (session-state prefix and keyword      *)
(* rewrite) and the query surface, over an abstract psycopg2 driver.       *)
(*                                                                         *)
(* A statement text is a sequence of tokens.  The tokens the code looks    *)
(* for are kept apart: the parameter marker "%s", the three keyword        *)
(* tokens, and the leading words "set search_path" in either case.         *)
(***************************************************************************)
EXTENDS Integers, Sequences, FiniteSets, TLC

(* ------------------------------ bounds ------------------------------ *)
MaxSessions == 3    \* physical sessions the driver opens in one behaviour
MaxTypes == 1       \* register_type calls that pass validation
MaxRows == 2        \* rows of a result set
MaxParams == 2      \* positional parameters of a call
MaxNotices == 2     \* notices pending on a session

(* ------------------------------ values ------------------------------ *)
None == "<None>"

Truthy(x) == x # None /\ x # ""

Min(a, b) == IF a < b THEN a ELSE b

\* str.join: the parts separated by the token sep
RECURSIVE Join(_, _)
Join(sep, parts) ==
  IF Len(parts) = 0 THEN << >>
  ELSE IF Len(parts) = 1 THEN parts[1]
  ELSE parts[1] \o <<sep>> \o Join(sep, Tail(parts))

\* str.replace(tok, by): every occurrence of tok, left to right, one pass
RECURSIVE Replace(_, _, _)
Replace(q, tok, by) ==
  IF Len(q) = 0 THEN << >>
  ELSE (IF Head(q) = tok THEN by ELSE <<Head(q)>>) \o Replace(Tail(q), tok, by)

\* query.split("%s"): the segments between parameter markers
RECURSIVE Split(_)
Split(q) ==
  IF \A i \in 1..Len(q) : q[i] # "%s" THEN <<q>>
  ELSE LET i == CHOOSE k \in 1..Len(q) :
                  q[k] = "%s" /\ \A j \in 1..(k - 1) : q[j] # "%s"
       IN <<SubSeq(q, 1, i - 1)>> \o Split(SubSeq(q, i + 1, Len(q)))

Contains(q, tok) == \E i \in 1..Len(q) : q[i] = tok

Markers(q) == Cardinality({i \in 1..Len(q) : q[i] = "%s"})

\* list.insert(i, v): an index past the end appends
ListInsert(s, i, v) ==
  LET j == Min(i, Len(s))
  IN SubSeq(s, 1, j) \o <<v>> \o SubSeq(s, j + 1, Len(s))

RECURSIVE InsertAll(_, _, _)
InsertAll(s, i, vs) ==
  IF Len(vs) = 0 THEN s ELSE InsertAll(ListInsert(s, i, Head(vs)), i, Tail(vs))

Reverse(s) == [i \in 1..Len(s) |-> s[Len(s) + 1 - i]]

StartsWith(q, p) == Len(q) >= Len(p) /\ SubSeq(q, 1, Len(p)) = p

(* ------------------------- statement builder ------------------------ *)
\* re.I: the leading words match in either case
Lower(tok) == IF tok = "SET SEARCH_PATH" THEN "set search_path" ELSE tok

\* re.search(r'^set search_path', query, re.I)
LeadingSearchPath(q) == Len(q) > 0 /\ Lower(q[1]) = "set search_path"

\* "set search_path = %s;" % path
SearchPathDirective(p) == <<"set search_path", "=", p, ";">>

\* "set timezone = '%s';" % timezone
TimezoneDirective(tz) == <<"set timezone", "=", tz, ";">>

\* the branch of _set_search_path that consumes the one-shot override
UsesChangePath(q, change) == Truthy(change) /\ ~LeadingSearchPath(q)

\* mutant: the override is not reset once used
ChangePathKept(q, change) == change

\* self._change_path after _set_search_path
ChangePathAfterBuild(q, change) == IF UsesChangePath(q, change) THEN None ELSE change

TimezonePrefix(tz) == IF Truthy(tz) THEN TimezoneDirective(tz) ELSE << >>

\* mutant: the persistent default is consulted before the one-shot override
SchemaPrefixDefaultFirst(q, change, default) ==
  IF Truthy(default) /\ ~LeadingSearchPath(q) THEN SearchPathDirective(default)
  ELSE IF UsesChangePath(q, change) THEN SearchPathDirective(change)
  ELSE << >>

\* the schema directive _set_search_path prepends, if any
SchemaPrefix(q, change, default) ==
  IF UsesChangePath(q, change) THEN SearchPathDirective(change)
  ELSE IF Truthy(default) /\ ~LeadingSearchPath(q) THEN SearchPathDirective(default)
  ELSE << >>

\* the text _set_search_path returns
SetSearchPathQuery(q, change, default, tz) ==
  TimezonePrefix(tz) \o SchemaPrefix(q, change, default) \o q

\* kw: the keyword arguments as <<key, value>> pairs in iteration order
KwKeys(kw) == [i \in 1..Len(kw) |-> <<kw[i][1]>>]
KwValues(kw) == [i \in 1..Len(kw) |-> <<"%s">>]
KwDatas(kw) == [i \in 1..Len(kw) |-> <<kw[i][1], "=", "%s">>]
KwArgs(kw) == [i \in 1..Len(kw) |-> kw[i][2]]

\* index of the first segment of query.split("%s") holding __data__, else 0
ParamPos(q) ==
  LET parts == Split(q)
      hits == {x \in 1..Len(parts) : Contains(parts[x], "__data__")}
  IN IF hits = {} THEN 0
     ELSE (CHOOSE x \in hits : \A y \in hits : x <= y) - 1

\* mutant: args.reverse() is left out
RewriteParamsNoReverse(q, params, kw) ==
  IF Len(kw) = 0 THEN params
  ELSE InsertAll(params, ParamPos(q), KwArgs(kw))

\* the parameters _execute hands to cursor.execute
RewriteParams(q, params, kw) ==
  IF Len(kw) = 0 THEN params
  ELSE InsertAll(params, ParamPos(q), Reverse(KwArgs(kw)))

\* mutant: the __values__ replacement is left out
RewriteQueryNoValues(q, kw) ==
  IF Len(kw) = 0 THEN q
  ELSE Replace(Replace(q, "__data__", Join(",", KwDatas(kw))),
               "__keys__", Join(",", KwKeys(kw)))

\* the text _execute hands to cursor.execute
RewriteQuery(q, kw) ==
  IF Len(kw) = 0 THEN q
  ELSE Replace(Replace(Replace(q, "__data__", Join(",", KwDatas(kw))),
                       "__keys__", Join(",", KwKeys(kw))),
               "__values__", Join(",", KwValues(kw)))


(* ------------------------------ inputs ------------------------------ *)
\* statement templates a caller passes (and script texts file() reads)
Templates ==
  { <<"select">>,
    <<"SET SEARCH_PATH", "=", "s", ";", "select">>,
    <<"insert", "(", "__keys__", ")", "values", "(", "__values__", ")">>,
    <<"update", "%s", "set", "__data__", "where", "%s">>,
    <<"set", "__data__", "where", "%s">>,
    <<"__keys__", "__values__", "%s", "__data__">> }

\* keyword arguments as the caller declares them: <<key, value>> pairs
KwargSets ==
  { << >>,
    << <<"x", 11>> >>,
    << <<"x", 11>>, <<"y", 12>> >>,
    << <<"__data__", 13>> >> }

\* the orders in which iterating the kwargs dict (a plain dict of Python 2,
\* which the izip and unicode of this file require) can yield the pairs
IterationOrders(decl) ==
  { s \in [1..Len(decl) -> {decl[i] : i \in 1..Len(decl)}] :
      \A i, j \in 1..Len(decl) : i # j => s[i] # s[j] }

\* positional parameters, numbered in call order
Positional(n) == [i \in 1..n |-> i]

\* the schema names path() is called with
PathArgs == {"o", ""}

\* the casts register_type is called with
Types == {"t1", "t2"}

\* what cursor.execute does on a live session: an error, or success with no
\* result-set description (rs = -1) or with a result set of rs rows
Faults == {"ok", "ProgrammingError", "OperationalError"}

Answers ==
  {[err |-> "ok", rs |-> r] : r \in -1..MaxRows}
    \cup {[err |-> e, rs |-> -1] : e \in Faults \ {"ok"}}

\* the same for the calls that fetch no rows
Statuses == {[err |-> e, rs |-> -1] : e \in Faults}

\* the inputs of the lifecycle specification: one plain statement
PlainTemplates == { <<"select">> }
NoKwargs == { << >> }
AllParams == 0..MaxParams

\* the logical callers that share the Connection, and the schema each one
\* passes to path()
Callers == {"a", "b"}
SchemaOf(c) == IF c = "a" THEN "sa" ELSE "sb"
NotYet == <<"<no statement yet>">>

\* a notice as the driver appends it to connection.notices: severity prefix
\* of eight characters, padding, message, line end
NoticeMessages == {"m1", "m2"}
RawNotice(m) == <<"NOTICE: ", " ", m, "\n">>
Clean == {[err |-> "ok", rs |-> -1]}

(* ------------------------------- state ------------------------------ *)
VARIABLES
  _db,              \* self._db: the session held (0 is None)
  sessions,         \* driver: status of every session opened so far
  transportUp,      \* environment: the server can be reached
  _register_types,  \* self._register_types
  installed,        \* driver: casts registered since the last connect
  _search_path,     \* self._search_path
  _change_path,     \* self._change_path
  timezone,         \* self.timezone
  lastOp,           \* the call (or environment step) that led here
  outcome,          \* "ok" or the error the call raised
  raisedBy,         \* the step of the call that raised
  result,           \* what the call returned
  fault,            \* what the server was set to answer the call's statement
  rows,             \* rows the driver yielded to the call (-1: no result set)
  template,         \* the template the call was given
  declared,         \* the keyword arguments the call was given
  positional,       \* the number of positional parameters the call was given
  sent,             \* the text handed to cursor.execute / executemany
  sentParams,       \* the parameters handed with it
  text,             \* the text cursor.mogrify was given
  usedSession,      \* the session the call's cursor was opened on (0: none)
  cursorState,      \* the call's cursor when the call ends
  db_notices,       \* self._db.notices: the notices pending on the session held
  drained,          \* what the notices property returned
  caller,           \* the logical caller that issued the call
  pathed,           \* callers whose path() call their own statement has not followed
  statementOf       \* per caller, the text of its last statement

vars == <<_db, sessions, transportUp, _register_types, installed, _search_path,
          _change_path, timezone, lastOp, outcome, raisedBy, result, fault, rows,
          template, declared, positional, sent, sentParams, text, usedSession,
          cursorState, db_notices, drained, caller, pathed, statementOf>>

callers == <<caller, pathed, statementOf>>

(* ------------------------------ driver ------------------------------ *)
\* connection.close() as self.close() calls it: the session held, if any
Close(db, ss) == IF db # 0 THEN [ss EXCEPT ![db] = "closed"] ELSE ss

\* mutant: the loop over the registry is left out
InstalledOnConnectMoneyOnly(reg) == <<"MONEY">>

\* the register_type calls reconnect makes on a new session (register_hstore
\* follows; its ProgrammingError is swallowed and it changes nothing here)
InstalledOnConnect(reg) == <<"MONEY">> \o reg

\* mutant: the replay of the registry appends every entry to it again
ReconnectReplaysRegistry(db, ss, up, reg, inst) ==
  IF up
  THEN [db |-> Len(ss) + 1, ss |-> Append(Close(db, ss), "open"), reg |-> reg \o reg,
        inst |-> InstalledOnConnect(reg), err |-> "ok", by |-> "none"]
  ELSE [db |-> 0, ss |-> Close(db, ss), reg |-> reg, inst |-> inst,
        err |-> "OperationalError", by |-> "connect"]

\* mutant: reconnect() opens the new session without closing the one held
ReconnectLeaksSession(db, ss, up, reg, inst) ==
  IF up
  THEN [db |-> Len(ss) + 1, ss |-> Append(ss, "open"), reg |-> reg,
        inst |-> InstalledOnConnect(reg), err |-> "ok", by |-> "none"]
  ELSE [db |-> 0, ss |-> ss, reg |-> reg, inst |-> inst,
        err |-> "OperationalError", by |-> "connect"]

\* reconnect(): close, then psycopg2.connect, which raises when the server
\* cannot be reached
Reconnect(db, ss, up, reg, inst) ==
  IF up
  THEN [db |-> Len(ss) + 1, ss |-> Append(Close(db, ss), "open"), reg |-> reg,
        inst |-> InstalledOnConnect(reg), err |-> "ok", by |-> "none"]
  ELSE [db |-> 0, ss |-> Close(db, ss), reg |-> reg, inst |-> inst,
        err |-> "OperationalError", by |-> "connect"]

\* _ensure_connected()
EnsureConnected(db, ss, up, reg, inst) ==
  IF db = 0 THEN Reconnect(db, ss, up, reg, inst)
  ELSE [db |-> db, ss |-> ss, reg |-> reg, inst |-> inst, err |-> "ok", by |-> "none"]

\* _cursor(): connection.cursor() raises InterfaceError on a session the
\* driver knows to be broken
Cursor(db, ss, up, reg, inst) ==
  LET c == EnsureConnected(db, ss, up, reg, inst)
  IN IF c.err = "ok" /\ c.ss[c.db] = "broken"
     THEN [c EXCEPT !.err = "InterfaceError", !.by = "cursor"]
     ELSE c

\* cursor.execute / executemany on a session: a live session runs the
\* statement (answer is what the server answers); one whose transport died
\* raises OperationalError
DriverExecute(status, answer) == IF status = "open" THEN answer ELSE "OperationalError"

\* the session after the driver ran a statement on it
StatusAfterExecute(status) == IF status = "stale" THEN "broken" ELSE status

\* a call may open a session only while the bound allows one more
CanOpen == Len(sessions) < MaxSessions

MayConnect == _db # 0 \/ ~transportUp \/ CanOpen

(* --------------------------- error handling ------------------------- *)
\* mutant: the except clause re-raises without self.close()
AfterExecuteKeepsSession(err, db, ss) == [db |-> db, ss |-> ss]

\* mutant: the except clause catches every error
AfterExecuteClosesOnAnyError(err, db, ss) ==
  IF err # "ok" THEN [db |-> 0, ss |-> Close(db, ss)]
  ELSE [db |-> db, ss |-> ss]

\* `except psycopg2.OperationalError: self.close()` of _execute and
\* _executemany: the session held, and the sessions, after cursor.execute
\* ended with err
AfterExecute(err, db, ss) ==
  IF err = "OperationalError" THEN [db |-> 0, ss |-> Close(db, ss)]
  ELSE [db |-> db, ss |-> ss]

\* file() has no except clause around cursor.execute
AfterFileExecute(err, db, ss) == [db |-> db, ss |-> ss]

\* the cursor of query / mogrify / executemany when the call ends: closed in
\* the except clause only
CursorOnExcept(err) == IF err = "ok" THEN "open" ELSE "closed"

\* the cursor of execute_rowcount when the call ends: closed in finally
CursorOnFinally(err) == "closed"

\* mutant: the length check is left out
GetOutcomeNeverRaises(n) == "ok"

\* get(): the first row, None, or the multiple-rows error; n is the number
\* of rows query returned (-1: query returned None)
GetOutcome(n) == IF n > 1 THEN "MultipleRows" ELSE "ok"

GetResult(n) == IF n < 1 THEN "None" ELSE IF n > 1 THEN "raise" ELSE "row1"

\* query(): the row list, or None without a result-set description
QueryResult(n) == IF n = -1 THEN "None" ELSE "rows"

\* register_type(): the registry after a call that passed the assertions
RegisterTypeAppend(reg, t) == Append(reg, t)

\* mutant: the cast is recorded for later connects only
InstalledAfterRegisterNever(db, inst, t) == inst

\* register_type(): `if self._db is not None:` the cast is registered with
\* the driver at once
InstalledAfterRegister(db, inst, t) == IF db # 0 THEN Append(inst, t) ELSE inst

(* ------------------------------ notices ----------------------------- *)
\* str.strip() on a text of tokens: white space goes from both ends
Blank(tok) == tok \in {" ", "\n"}

RECURSIVE LStrip(_)
LStrip(q) == IF Len(q) > 0 /\ Blank(Head(q)) THEN LStrip(Tail(q)) ELSE q

Strip(q) == Reverse(LStrip(Reverse(LStrip(q))))

\* notice[8:].strip(): the raw notice without its severity prefix
NoticeText(raw) == Strip(Tail(raw))

\* mutant: the loop runs one time too few
PoppedButOne(pending) == SubSeq(Reverse(pending), 1, Len(pending) - 1)

\* one self._db.notices.pop() per pending notice: each pop takes the last
Popped(pending) == Reverse(pending)

\* self._db.notices after k pops
LeftAfterPops(pending, k) == SubSeq(pending, 1, Len(pending) - k)

(* --------------------------- file() prefix -------------------------- *)
\* the text file() executes: the schema directive is prepended whatever the
\* script starts with, and no timezone directive
FileQuery(sql, change, default) ==
  IF Truthy(change) THEN SearchPathDirective(change) \o sql
  ELSE IF Truthy(default) THEN SearchPathDirective(default) \o sql
  ELSE sql

FileChangePath(change) == IF Truthy(change) THEN None ELSE change

(* ------------------------------ actions ----------------------------- *)
\* what a call that is given no statement leaves in the observation
NoCallInputs ==
  /\ template' = << >> /\ declared' = << >> /\ positional' = 0 /\ fault' = "ok"
  /\ drained' = << >>

NothingSent ==
  /\ sent' = << >> /\ sentParams' = << >> /\ text' = << >>
  /\ rows' = -1 /\ usedSession' = 0 /\ cursorState' = "none"

Config == <<_search_path, timezone>>

CallInputs(tmpl, n, decl, answer) ==
  /\ template' = tmpl /\ declared' = decl /\ positional' = n /\ fault' = answer
  /\ drained' = << >>

\* the pending notices belong to the session object: a call that drops or
\* replaces the session held leaves the Connection with none of them
SessionNotices == db_notices' = IF _db' = _db THEN db_notices ELSE << >>

\* the calls of a Connection that a single caller uses
SingleCaller == UNCHANGED callers

\* the call raised in _cursor(): no cursor, no statement built
RaisedInCursor(c) ==
  /\ _db' = c.db /\ sessions' = c.ss /\ installed' = c.inst
  /\ _register_types' = c.reg
  /\ outcome' = c.err /\ raisedBy' = c.by /\ result' = "raise"
  /\ NothingSent
  /\ UNCHANGED _change_path

\* the call ran q with ps on the cursor of c; a is the Connection's session
\* after its error handling
Executed(c, a, q, ps, chg, cur) ==
  /\ _db' = a.db
  /\ sessions' = a.ss
  /\ installed' = c.inst
  /\ _register_types' = c.reg
  /\ _change_path' = chg
  /\ sent' = q /\ sentParams' = ps /\ text' = << >>
  /\ usedSession' = c.db
  /\ cursorState' = cur

\* _execute(cursor, query, parameters, kwargs) and what its caller makes of
\* it: out / res give the caller's outcome and result after a clean execute
ExecuteWith(tmpl, n, kw, ans, cur, out, res) ==
  LET c == Cursor(_db, sessions, transportUp, _register_types, installed)
  IN IF c.err # "ok" THEN RaisedInCursor(c)
     ELSE LET q1 == SetSearchPathQuery(tmpl, _change_path, _search_path, timezone)
              err == DriverExecute(c.ss[c.db], ans.err)
              ss1 == [c.ss EXCEPT ![c.db] = StatusAfterExecute(@)]
          IN /\ Executed(c, AfterExecute(err, c.db, ss1),
                         RewriteQuery(q1, kw), RewriteParams(q1, Positional(n), kw),
                         ChangePathAfterBuild(tmpl, _change_path),
                         IF cur = "finally" THEN CursorOnFinally(err)
                                            ELSE CursorOnExcept(err))
             /\ outcome' = (IF err = "ok" THEN out ELSE err)
             /\ raisedBy' = (IF err # "ok" THEN "execute"
                             ELSE IF out # "ok" THEN "result" ELSE "none")
             /\ result' = (IF err = "ok" THEN res ELSE "raise")
             /\ rows' = (IF err = "ok" THEN ans.rs ELSE -1)

\* query(query, *parameters, **kwargs), entered under the name op
QueryAs(op, T, N, K, A) ==
  \E tmpl \in T, n \in N, decl \in K, ans \in A :
    \E kw \in IterationOrders(decl) :
      /\ MayConnect
      /\ lastOp' = op
      /\ CallInputs(tmpl, n, decl, ans.err)
      /\ ExecuteWith(tmpl, n, kw, ans, "except", "ok", QueryResult(ans.rs))
      /\ UNCHANGED <<transportUp, Config>>
      /\ SessionNotices

Query(T, N, K, A) == QueryAs("query", T, N, K, A)

\* execute(query, *parameters): the signature takes no keyword arguments, so
\* a call that passes any raises TypeError before the body runs
Execute(T, N, K, A) ==
  \E tmpl \in T, n \in N, decl \in K, ans \in A :
      /\ lastOp' = "execute"
      /\ CallInputs(tmpl, n, decl, ans.err)
      /\ IF decl # << >>
         THEN /\ outcome' = "TypeError" /\ raisedBy' = "call" /\ result' = "raise"
              /\ NothingSent
              /\ UNCHANGED <<_db, sessions, installed, _register_types, _change_path>>
         ELSE /\ MayConnect
              /\ ExecuteWith(tmpl, n, << >>, ans, "except", "ok", QueryResult(ans.rs))
      /\ UNCHANGED <<transportUp, Config>>
      /\ SessionNotices

Get(T, N, K, A) ==
  \E tmpl \in T, n \in N, decl \in K, ans \in A :
    \E kw \in IterationOrders(decl) :
      /\ MayConnect
      /\ lastOp' = "get"
      /\ CallInputs(tmpl, n, decl, ans.err)
      /\ ExecuteWith(tmpl, n, kw, ans, "except", GetOutcome(ans.rs), GetResult(ans.rs))
      /\ UNCHANGED <<transportUp, Config>>
      /\ SessionNotices

ExecuteRowcount(T, N, K, A) ==
  \E tmpl \in T, n \in N, decl \in K, ans \in A :
    \E kw \in IterationOrders(decl) :
      /\ MayConnect
      /\ lastOp' = "execute_rowcount"
      /\ CallInputs(tmpl, n, decl, ans.err)
      /\ ExecuteWith(tmpl, n, kw, ans, "finally", "ok", "rowcount")
      /\ UNCHANGED <<transportUp, Config>>
      /\ SessionNotices

\* executemany(query, *parameters) over _executemany: the prefix, no keyword
\* rewrite; n parameter sequences
ExecuteMany(T, N, A) ==
  \E tmpl \in T, n \in N, ans \in A :
    LET c == Cursor(_db, sessions, transportUp, _register_types, installed)
    IN /\ MayConnect
       /\ lastOp' = "executemany"
       /\ CallInputs(tmpl, n, << >>, ans.err)
       /\ IF c.err # "ok" THEN RaisedInCursor(c)
          ELSE LET err == DriverExecute(c.ss[c.db], ans.err)
                   ss1 == [c.ss EXCEPT ![c.db] = StatusAfterExecute(@)]
               IN /\ Executed(c, AfterExecute(err, c.db, ss1),
                              SetSearchPathQuery(tmpl, _change_path, _search_path, timezone),
                              Positional(n),
                              ChangePathAfterBuild(tmpl, _change_path),
                              CursorOnExcept(err))
                  /\ outcome' = err
                  /\ raisedBy' = (IF err # "ok" THEN "execute" ELSE "none")
                  /\ result' = (IF err = "ok" THEN "True" ELSE "raise")
                  /\ rows' = -1
       /\ UNCHANGED <<transportUp, Config>>
       /\ SessionNotices

\* mogrify(query, *parameters): cursor.mogrify on the template as given;
\* nothing is sent to the server
Mogrify(T, N) ==
  \E tmpl \in T, n \in N, err \in {"ok", "ProgrammingError"} :
    LET c == Cursor(_db, sessions, transportUp, _register_types, installed)
    IN /\ MayConnect
       /\ lastOp' = "mogrify"
       /\ CallInputs(tmpl, n, << >>, err)
       /\ IF c.err # "ok" THEN RaisedInCursor(c)
          ELSE /\ _db' = c.db /\ sessions' = c.ss /\ installed' = c.inst
               /\ _register_types' = c.reg
               /\ sent' = << >> /\ sentParams' = Positional(n) /\ text' = tmpl
               /\ usedSession' = c.db
               /\ cursorState' = CursorOnExcept(err)
               /\ outcome' = err
               /\ raisedBy' = (IF err # "ok" THEN "mogrify" ELSE "none")
               /\ result' = (IF err = "ok" THEN "text" ELSE "raise")
               /\ rows' = -1
               /\ UNCHANGED _change_path
       /\ UNCHANGED <<transportUp, Config>>
       /\ SessionNotices

\* file(path): sql is the script read from path, inclusions resolved; the
\* cursor is neither closed nor is any error caught
File(T, A) ==
  \E sql \in T, ans \in A :
    LET c == Cursor(_db, sessions, transportUp, _register_types, installed)
    IN /\ MayConnect
       /\ lastOp' = "file"
       /\ CallInputs(sql, 0, << >>, ans.err)
       /\ IF c.err # "ok" THEN RaisedInCursor(c)
          ELSE LET err == DriverExecute(c.ss[c.db], ans.err)
                   ss1 == [c.ss EXCEPT ![c.db] = StatusAfterExecute(@)]
               IN /\ Executed(c, AfterFileExecute(err, c.db, ss1),
                              FileQuery(sql, _change_path, _search_path), << >>,
                              FileChangePath(_change_path), "open")
                  /\ outcome' = err
                  /\ raisedBy' = (IF err # "ok" THEN "execute" ELSE "none")
                  /\ result' = (IF err = "ok" THEN "None" ELSE "raise")
                  /\ rows' = -1
       /\ UNCHANGED <<transportUp, Config>>
       /\ SessionNotices

\* reconnect(), called by the caller
reconnect ==
  LET c == Reconnect(_db, sessions, transportUp, _register_types, installed)
  IN /\ ~transportUp \/ CanOpen
     /\ lastOp' = "reconnect"
     /\ _db' = c.db /\ sessions' = c.ss /\ installed' = c.inst
     /\ _register_types' = c.reg
     /\ outcome' = c.err /\ raisedBy' = c.by
     /\ result' = (IF c.err = "ok" THEN "None" ELSE "raise")
     /\ NoCallInputs /\ NothingSent
     /\ UNCHANGED <<transportUp, _change_path, Config>>
     /\ SessionNotices /\ SingleCaller

close ==
  /\ lastOp' = "close"
  /\ _db' = 0 /\ sessions' = Close(_db, sessions)
  /\ outcome' = "ok" /\ raisedBy' = "none" /\ result' = "None"
  /\ NoCallInputs /\ NothingSent
  /\ UNCHANGED <<transportUp, _register_types, installed, _change_path, Config>>
  /\ SessionNotices /\ SingleCaller

\* path(search_path)
Path(P) ==
  \E search_path \in P :
    /\ lastOp' = "path"
    /\ _change_path' = search_path
    /\ outcome' = "ok" /\ raisedBy' = "none" /\ result' = "self"
    /\ NoCallInputs /\ NothingSent
    /\ UNCHANGED <<_db, sessions, transportUp, _register_types, installed, Config>>
    /\ SessionNotices

path == Path(PathArgs) /\ SingleCaller

\* register_type(oids, name, casting); valid: the three assertions pass
register_type ==
  \E t \in Types, valid \in BOOLEAN :
    /\ lastOp' = "register_type"
    /\ IF valid
       THEN /\ Len(_register_types) < MaxTypes
            /\ _register_types' = RegisterTypeAppend(_register_types, t)
            /\ installed' = InstalledAfterRegister(_db, installed, t)
            /\ outcome' = "ok" /\ raisedBy' = "none" /\ result' = "None"
       ELSE /\ outcome' = "AssertionError" /\ raisedBy' = "validate"
            /\ result' = "raise"
            /\ UNCHANGED <<_register_types, installed>>
    /\ NoCallInputs /\ NothingSent
    /\ UNCHANGED <<_db, sessions, transportUp, _change_path, Config>>
    /\ SessionNotices /\ SingleCaller

\* environment: the server becomes unreachable; sessions that were live are
\* dead, which the driver learns when it next uses them
TransportFails ==
  /\ transportUp
  /\ transportUp' = FALSE
  /\ sessions' = [i \in 1..Len(sessions) |->
                    IF sessions[i] = "open" THEN "stale" ELSE sessions[i]]
  /\ lastOp' = "transport"
  /\ UNCHANGED <<_db, _register_types, installed, _change_path, Config,
                 outcome, raisedBy, result, fault, rows, template, declared, positional,
                 sent, sentParams, text, usedSession, cursorState,
                 db_notices, drained, callers>>

\* environment: the server can be reached again
TransportRecovers ==
  /\ ~transportUp
  /\ transportUp' = TRUE
  /\ lastOp' = "transport"
  /\ UNCHANGED <<_db, sessions, _register_types, installed, _change_path, Config,
                 outcome, raisedBy, result, fault, rows, template, declared, positional,
                 sent, sentParams, text, usedSession, cursorState,
                 db_notices, drained, callers>>

\* mutant: __init__ lets the failure of its reconnect() out
ConstructedRaises(ups) ==
  \E sp \in {None, "d"}, tz \in {None, "+00"}, up \in ups :
    LET c == Reconnect(0, << >>, up, << >>, << >>)
    IN /\ _search_path = sp /\ timezone = tz /\ transportUp = up
       /\ _change_path = None
       /\ _register_types = << >>
       /\ _db = c.db /\ sessions = c.ss /\ installed = c.inst
       /\ lastOp = "__init__"
       /\ outcome = c.err /\ raisedBy = c.by /\ fault = "ok"
       /\ result = (IF c.err = "ok" THEN "self" ELSE "raise")
       /\ rows = -1 /\ template = << >> /\ declared = << >> /\ positional = 0
       /\ sent = << >> /\ sentParams = << >> /\ text = << >>
       /\ usedSession = 0 /\ cursorState = "none"
       /\ db_notices = << >> /\ drained = << >>
       /\ caller = "none" /\ pathed = {} /\ statementOf = [k \in Callers |-> NotYet]

\* __init__: one reconnect() whose failure is logged and swallowed
Constructed(ups) ==
  \E sp \in {None, "d"}, tz \in {None, "+00"}, up \in ups :
    LET c == Reconnect(0, << >>, up, << >>, << >>)
    IN /\ _search_path = sp /\ timezone = tz /\ transportUp = up
       /\ _change_path = None
       /\ _register_types = << >>
       /\ _db = c.db /\ sessions = c.ss /\ installed = c.inst
       /\ lastOp = "__init__"
       /\ outcome = "ok" /\ raisedBy = "none" /\ result = "self" /\ fault = "ok"
       /\ rows = -1 /\ template = << >> /\ declared = << >> /\ positional = 0
       /\ sent = << >> /\ sentParams = << >> /\ text = << >>
       /\ usedSession = 0 /\ cursorState = "none"
       /\ db_notices = << >> /\ drained = << >>
       /\ caller = "none" /\ pathed = {} /\ statementOf = [k \in Callers |-> NotYet]

(* ---------------- the lifecycle: sessions, errors, cursors ---------- *)
Init == Constructed(BOOLEAN)

query == Query(PlainTemplates, {0}, NoKwargs, Answers) /\ SingleCaller
execute == Execute(PlainTemplates, {0}, NoKwargs, Answers) /\ SingleCaller
get == Get(PlainTemplates, {0}, NoKwargs, Answers) /\ SingleCaller
execute_rowcount == ExecuteRowcount(PlainTemplates, {0}, NoKwargs, Statuses) /\ SingleCaller
executemany == ExecuteMany(PlainTemplates, {0}, Statuses) /\ SingleCaller
mogrify == Mogrify(PlainTemplates, {0}) /\ SingleCaller
file == File(PlainTemplates, Statuses) /\ SingleCaller

Next ==
  \/ query \/ execute \/ get \/ execute_rowcount \/ executemany
  \/ mogrify \/ file
  \/ reconnect \/ close \/ path \/ register_type
  \/ TransportFails \/ TransportRecovers

Spec == Init /\ [][Next]_vars

(* ------- the statement builder: every template, a healthy server ----- *)
InitBuild == Constructed({TRUE})

build_query == Query(Templates, 0..MaxParams, KwargSets, Clean) /\ SingleCaller
build_get == Get(Templates, {0}, KwargSets, Clean) /\ SingleCaller
build_execute == Execute(Templates, {0}, KwargSets, Clean) /\ SingleCaller
build_execute_rowcount == ExecuteRowcount(Templates, {0}, KwargSets, Clean) /\ SingleCaller
build_executemany == ExecuteMany(Templates, {0}, Clean) /\ SingleCaller
build_file == File(Templates, Clean) /\ SingleCaller

NextBuild ==
  \/ build_query \/ build_get \/ build_execute \/ build_execute_rowcount
  \/ build_executemany \/ build_file \/ path

SpecBuild == InitBuild /\ [][NextBuild]_vars

(* ------------------ notices pending on the session ------------------ *)
\* the notices property: every pending notice is popped and returned
\* without its prefix; without a session nothing is touched
notices ==
  /\ lastOp' = "notices"
  /\ IF _db # 0
     THEN /\ drained' = [i \in 1..Len(Popped(db_notices)) |->
                           NoticeText(Popped(db_notices)[i])]
          /\ db_notices' = LeftAfterPops(db_notices, Len(Popped(db_notices)))
     ELSE /\ drained' = << >>
          /\ UNCHANGED db_notices
  /\ outcome' = "ok" /\ raisedBy' = "none" /\ result' = "list"
  /\ template' = << >> /\ declared' = << >> /\ positional' = 0 /\ fault' = "ok"
  /\ NothingSent
  /\ UNCHANGED <<_db, sessions, transportUp, _register_types, installed,
                 _change_path, Config>>
  /\ SingleCaller

\* environment: the server sends a notice on the live session held, which
\* the driver appends to connection.notices
ServerNotice ==
  \E m \in NoticeMessages :
    /\ _db # 0 /\ sessions[_db] = "open"
    /\ Len(db_notices) < MaxNotices
    /\ db_notices' = Append(db_notices, RawNotice(m))
    /\ lastOp' = "server"
    /\ UNCHANGED <<_db, sessions, transportUp, _register_types, installed,
                   _change_path, Config, outcome, raisedBy, result, fault, rows,
                   template, declared, positional, sent, sentParams, text,
                   usedSession, cursorState, drained, callers>>

notices_query == Query(PlainTemplates, {0}, NoKwargs, Statuses) /\ SingleCaller

NextNotices ==
  \/ notices \/ ServerNotice \/ notices_query
  \/ reconnect \/ close
  \/ TransportFails \/ TransportRecovers

SpecNotices == Init /\ [][NextNotices]_vars

(* ------------- two logical callers sharing the Connection ------------ *)
\* caller c calls path(its schema); its statement is to follow
CallerPath(c) ==
  /\ c \notin pathed
  /\ Path({SchemaOf(c)})
  /\ caller' = c
  /\ pathed' = pathed \cup {c}
  /\ UNCHANGED statementOf

\* caller c issues the statement its path() call was meant for
CallerQuery(c) ==
  /\ c \in pathed
  /\ Query(PlainTemplates, {0}, NoKwargs, Clean)
  /\ caller' = c
  /\ pathed' = pathed \ {c}
  /\ statementOf' = [statementOf EXCEPT ![c] = sent']

caller_path == \E c \in Callers : CallerPath(c)
caller_query == \E c \in Callers : CallerQuery(c)

NextShared == caller_path \/ caller_query

SpecShared == InitBuild /\ [][NextShared]_vars



(* ------------------------------ claims ------------------------------ *)
ExecuteOps == {"query", "get", "execute", "execute_rowcount", "executemany"}

StatementOps == ExecuteOps \cup {"file"}

KeywordOps == {"query", "get", "execute_rowcount"}

\* the call handed a statement to the driver
Built == lastOp \in StatementOps /\ sent # << >>

\* C1: when cursor.execute raises OperationalError in query, get, execute,
\* execute_rowcount or executemany, the call raises that error, the session
\* it ran on is closed, the Connection holds no session, and no later
\* session was opened to run the statement again.
C1_OperationalErrorDisconnects ==
  (lastOp \in ExecuteOps /\ outcome = "OperationalError" /\ raisedBy = "execute")
    => /\ result = "raise"
       /\ _db = 0
       /\ sessions[usedSession] = "closed"
       /\ usedSession = Len(sessions)
       /\ \A i \in 1..Len(sessions) : sessions[i] = "closed"

C1_Witness ==
  /\ lastOp = "get" /\ outcome = "OperationalError" /\ raisedBy = "execute"
  /\ usedSession # 0 /\ fault = "OperationalError"

\* C2: after an operational failure of a statement-executing call (file
\* included), with the server reachable again and answering the statement,
\* the next statement-executing call opens a fresh session, runs on it and
\* does not fail.
C2_NextCallOpensFreshSession ==
  [][ ( /\ outcome = "OperationalError" /\ raisedBy = "execute"
        /\ transportUp
        /\ lastOp' \in StatementOps /\ fault' = "ok" )
      => ( /\ Len(sessions') = Len(sessions) + 1
           /\ usedSession' = Len(sessions')
           /\ sessions'[usedSession'] = "open"
           /\ raisedBy' \notin {"connect", "cursor", "execute"} ) ]_vars

\* C3: when cursor.execute raises a non-operational error, the call raises
\* it and the Connection still holds the live session the statement ran on;
\* the call that follows opens no session and runs on that same session.
C3_SqlErrorKeepsSession ==
  [][ /\ (lastOp' \in ExecuteOps /\ outcome' = "ProgrammingError" /\ raisedBy' = "execute")
        => ( /\ result' = "raise"
             /\ _db' # 0 /\ _db' = usedSession'
             /\ sessions'[_db'] = "open"
             /\ (_db # 0 => _db' = _db) )
      /\ ( /\ lastOp \in ExecuteOps /\ outcome = "ProgrammingError"
           /\ raisedBy = "execute"
           /\ lastOp' \in StatementOps \cup {"mogrify"} )
        => (Len(sessions') = Len(sessions) /\ usedSession' = _db) ]_vars

C3_Witness ==
  /\ lastOp = "query" /\ outcome = "ProgrammingError" /\ raisedBy = "execute"
  /\ _db # 0 /\ sessions[_db] = "open"

C9_CursorClosedOnEveryExit ==
  (lastOp \in ExecuteOps \cup {"mogrify"}) => cursorState # "open"

\* C10: only a register_type call that passes validation changes the
\* registry, and it appends one entry; reconnect, close, lazy reconnects
\* and failures leave it as it is.
C10_RegistryAppendOnly ==
  [][ IF lastOp' = "register_type" /\ outcome' = "ok"
      THEN \E t \in Types : _register_types' = Append(_register_types, t)
      ELSE _register_types' = _register_types ]_vars

C10_Witness ==
  /\ lastOp = "reconnect" /\ outcome = "ok" /\ _register_types # << >>
  /\ Len(sessions) >= 2


(* ----------------- claims about the statement builder --------------- *)
\* the text after a leading timezone directive, if there is one
AfterTimezone(q) ==
  IF Len(q) >= 4 /\ q[1] = "set timezone" THEN SubSeq(q, 5, Len(q)) ELSE q

\* the schema a text's leading `set search_path = <schema>;` names, else None
DirectivePath(q) ==
  IF Len(q) >= 4 /\ q[1] = "set search_path" /\ q[2] = "=" /\ q[4] = ";"
  THEN q[3] ELSE None

DefaultPath == IF Truthy(_search_path) THEN _search_path ELSE None

\* C4 as stated: for a template that does not start with a schema-setting
\* statement, the statement built after path(O), O non-empty, begins with
\* `set search_path = O;`, and the statement built after that, with no new
\* path call, carries the default's directive or none.
C4_OverrideBeginsStatement ==
  [][ /\ (Built' /\ ~LeadingSearchPath(template'))
        => IF Truthy(_change_path)
           THEN /\ StartsWith(sent', SearchPathDirective(_change_path))
                /\ ~Truthy(_change_path')
           ELSE DirectivePath(AfterTimezone(sent')) = DefaultPath
      /\ (lastOp' # "path" => _change_path' \in {_change_path, None}) ]_vars

\* C4 as amended: the directive comes right after the timezone directive,
\* which query, get, execute, execute_rowcount and executemany (not file)
\* put first whenever a timezone is configured.
C4_OverrideAfterTimezone ==
  [][ /\ (Built' /\ ~LeadingSearchPath(template'))
        => /\ (Truthy(timezone) /\ lastOp' # "file")
                => StartsWith(sent', TimezoneDirective(timezone))
           /\ (~Truthy(timezone) \/ lastOp' = "file")
                => AfterTimezone(sent') = sent'
           /\ IF Truthy(_change_path)
              THEN /\ DirectivePath(AfterTimezone(sent')) = _change_path
                   /\ ~Truthy(_change_path')
              ELSE DirectivePath(AfterTimezone(sent')) = DefaultPath
      /\ (lastOp' # "path" => _change_path' \in {_change_path, None}) ]_vars

C4_Witness ==
  /\ lastOp = "query" /\ template = <<"select">>
  /\ Truthy(timezone) /\ _search_path = "d"
  /\ DirectivePath(AfterTimezone(sent)) = "o"
  /\ _change_path = None

\* C5: building a statement always leaves the one-shot override empty,
\* whether or not the override was prepended.
C5_OverrideClearedByAnyBuild ==
  [][ Built' => ~Truthy(_change_path') ]_vars

HasAllTokens(q) ==
  Contains(q, "__keys__") /\ Contains(q, "__values__") /\ Contains(q, "__data__")

NoTokens(q) ==
  ~Contains(q, "__keys__") /\ ~Contains(q, "__values__") /\ ~Contains(q, "__data__")

\* C6 as stated: for every keyword-argument set and every template holding
\* the three tokens, the statement sent holds none of them and carries as
\* many parameters as there are positional parameters and keyword arguments.
C6_RewriteRemovesTokens ==
  (lastOp \in KeywordOps /\ sent # << >> /\ HasAllTokens(template))
    => /\ NoTokens(sent)
       /\ Len(sentParams) = positional + Len(declared)

\* C6 as amended: the same for a non-empty keyword-argument set none of
\* whose names holds the token __data__ or __keys__.
C6_RewriteRemovesTokensOfNamedColumns ==
  ( /\ lastOp \in KeywordOps /\ sent # << >> /\ HasAllTokens(template)
    /\ declared # << >>
    /\ \A i \in 1..Len(declared) : declared[i][1] \notin {"__data__", "__keys__"} )
    => /\ NoTokens(sent)
       /\ Len(sentParams) = positional + Len(declared)

C6_Witness ==
  /\ lastOp = "query" /\ HasAllTokens(template)
  /\ Len(declared) = 2 /\ positional = 2
  /\ NoTokens(sent) /\ Len(sentParams) = 4

InsertTemplate ==
  <<"insert", "(", "__keys__", ")", "values", "(", "__values__", ")">>

\* the statement C7 expects for the keyword arguments decl
InsertStatement(decl) ==
  <<"insert", "(">> \o Join(",", KwKeys(decl)) \o <<")", "values", "(">>
    \o Join(",", KwValues(decl)) \o <<")">>

EndsWith(q, p) ==
  Len(q) >= Len(p) /\ SubSeq(q, Len(q) - Len(p) + 1, Len(q)) = p

\* C7: for the insert template and keyword arguments k1=v1, ..., kn=vn,
\* query sends, after the session-state prefix, the insert statement with
\* the columns k1, ..., kn and n markers, and the parameters (v1, ..., vn),
\* both in the order the caller declared the keyword arguments.
C7_InsertInDeclarationOrder ==
  ( /\ lastOp = "query" /\ sent # << >> /\ template = InsertTemplate
    /\ declared # << >> /\ positional = 0 )
    => /\ EndsWith(sent, InsertStatement(declared))
       /\ sentParams = KwArgs(declared)


(* --------------------------- further claims ------------------------- *)
\* C12: every execute call does what query does with the same template,
\* positional and keyword parameters from the same state: the same statement
\* and parameters sent, the same result, the same Connection state.
C12_ExecuteIsQuery ==
  [][ lastOp' = "execute"
        => QueryAs("execute", Templates, AllParams, KwargSets, Answers) ]_vars

\* C13: the text mogrify binds is the text query would send from the same
\* session state, session-state prefix included, and mogrify sends nothing.
C13_MogrifyBindsSentText ==
  (lastOp = "mogrify" /\ outcome = "ok")
    => /\ text = SetSearchPathQuery(template, _change_path, _search_path, timezone)
       /\ sent = << >>

\* C14: with a timezone configured, the text query, get, execute_rowcount,
\* executemany and file hand to the driver begins with the timezone
\* directive, then at most one schema directive, then the statement, in one
\* string.
C14_TimezoneFirst ==
  ( /\ lastOp \in {"query", "get", "execute_rowcount", "executemany", "file"}
    /\ sent # << >> /\ Truthy(timezone) /\ declared = << >> )
    => /\ StartsWith(sent, TimezoneDirective(timezone))
       /\ \/ AfterTimezone(sent) = template
          \/ /\ DirectivePath(AfterTimezone(sent)) # None
             /\ SubSeq(AfterTimezone(sent), 5, Len(AfterTimezone(sent))) = template

NeedSession == StatementOps \cup {"mogrify"}

\* C15: construction succeeds whether or not the first connect does, and
\* leaves the Connection without a session when it does not; the first call
\* that needs a session then tries to connect.
C15_ConstructionSwallowsConnectFailure ==
  [][ /\ lastOp = "__init__"
           => /\ outcome = "ok" /\ result = "self"
              /\ IF transportUp THEN _db = 1 /\ sessions = <<"open">>
                                ELSE _db = 0 /\ sessions = << >>
      /\ (sessions = << >> /\ lastOp' \in NeedSession)
           => IF transportUp
              THEN Len(sessions') = 1 /\ usedSession' = 1 /\ raisedBy' # "connect"
              ELSE /\ outcome' = "OperationalError" /\ raisedBy' = "connect"
                   /\ _db' = 0 /\ sessions' = << >> ]_vars

C15_Witness ==
  /\ lastOp = "query" /\ sessions = << >>
  /\ outcome = "OperationalError" /\ raisedBy = "connect"

\* C16: a register_type call that passes validation appends one entry and
\* registers the cast with the driver exactly when a session is held; one
\* that fails validation raises and changes neither.
C16_RegisterType ==
  [][ lastOp' = "register_type"
        => IF outcome' = "ok"
           THEN \E t \in Types :
                  /\ _register_types' = Append(_register_types, t)
                  /\ installed' = IF _db # 0 THEN Append(installed, t) ELSE installed
           ELSE /\ outcome' = "AssertionError"
                /\ _register_types' = _register_types
                /\ installed' = installed ]_vars

C16_Witness ==
  /\ lastOp = "register_type" /\ outcome = "ok" /\ _db # 0
  /\ Len(_register_types) = 1
  /\ installed = <<"MONEY">> \o _register_types

\* the schema directive a caller's statement carries
Carried(q) == DirectivePath(AfterTimezone(q))

Orders(n) == {f \in [1..n -> 1..n] : \A i, j \in 1..n : i # j => f[i] # f[j]}

\* got holds the message of every raw notice of pending, once each
SameNotices(got, pending) ==
  /\ Len(got) = Len(pending)
  /\ \E f \in Orders(Len(pending)) :
       \A i \in 1..Len(pending) : got[i] = <<pending[f[i]][3]>>

\* C18: a read of notices with a session held returns every pending notice
\* once and leaves none pending, so a second read at once returns nothing;
\* without a session it returns nothing; it never opens a session.
C18_NoticesDrained ==
  [][ lastOp' = "notices"
        => /\ _db' = _db /\ sessions' = sessions
           /\ IF _db # 0
              THEN SameNotices(drained', db_notices) /\ db_notices' = << >>
              ELSE drained' = << >>
           /\ lastOp = "notices" => drained' = << >> ]_vars

C18_Witness ==
  /\ lastOp = "notices" /\ _db # 0
  /\ Len(drained) = 2 /\ drained[1] # drained[2]
  /\ db_notices = << >>

\* templates with one __data__ token and no other keyword token
OneData(q) ==
  /\ Cardinality({i \in 1..Len(q) : q[i] = "__data__"}) = 1
  /\ ~Contains(q, "__keys__") /\ ~Contains(q, "__values__")

DataAt(q) == CHOOSE i \in 1..Len(q) : q[i] = "__data__"

\* C19: for a template with one __data__ token and as many positional
\* parameters as markers, the keyword values go in as one block, in the
\* order of the columns written into the statement, at the index equal to
\* the number of markers before __data__, the positional parameters keeping
\* their order: parameter i belongs to marker i of the statement sent.
C19_DataBlockAligned ==
  ( /\ lastOp \in KeywordOps /\ sent # << >> /\ declared # << >>
    /\ OneData(template) /\ positional = Markers(template) )
    => \E kw \in IterationOrders(declared) :
         LET at == DataAt(template)
             k == Markers(SubSeq(template, 1, at - 1))
             ps == [i \in 1..positional |-> i]
         IN /\ EndsWith(sent, SubSeq(template, 1, at - 1)
                                \o Join(",", [i \in 1..Len(kw) |-> <<kw[i][1], "=", "%s">>])
                                \o SubSeq(template, at + 1, Len(template)))
            /\ sentParams = SubSeq(ps, 1, k)
                              \o [i \in 1..Len(kw) |-> kw[i][2]]
                              \o SubSeq(ps, k + 1, positional)
            /\ Len(sentParams) = Markers(sent)

C19_Witness ==
  /\ lastOp = "query" /\ sent # << >>
  /\ template = <<"update", "%s", "set", "__data__", "where", "%s">>
  /\ positional = 2 /\ Len(declared) = 2
  /\ sentParams \in {<<1, 11, 12, 2>>, <<1, 12, 11, 2>>}

\* C20: the Connection holds at most one session, and every session opened
\* that it does not hold is closed; after close(), and after a reconnect()
\* whose connect failed, it holds none.
C20_OneSessionOthersClosed ==
  /\ _db \in 0..Len(sessions)
  /\ \A i \in 1..Len(sessions) : i # _db => sessions[i] = "closed"
  /\ lastOp = "close" => _db = 0
  /\ (lastOp = "reconnect" /\ outcome # "ok") => _db = 0

C20_Witness ==
  /\ lastOp = "reconnect" /\ outcome = "OperationalError"
  /\ Len(sessions) = 2 /\ _db = 0
  /\ \A i \in 1..Len(sessions) : sessions[i] = "closed"

====
